---------------------------- MODULE Spec2Model ----------------------------
(***************************************************************************)
(* A model of two qwc2 components:                                         *)
(*                                                                         *)
(*   - plugins/HeightProfile.jsx: the elevation query state machine        *)
(*     (componentDidUpdate, queryElevations and its two response handlers, *)
(*     onClose);                                                           *)
(*   - components/map3d/drawtool/EditTool3D.jsx: the GroupSelection class  *)
(*     over a three.js scene graph and the EditTool3D controller (pointer  *)
(*     listeners, selectShape, boolean operations and their undo).         *)
(*                                                                         *)
(* SpecHP is the HeightProfile component, SpecGS drives the public methods *)
(* of one GroupSelection, SpecET is the EditTool3D controller.             *)
(***************************************************************************)
EXTENDS Integers, Sequences, FiniteSets, TLC

VARIABLES
    \* ---- HeightProfile -------------------------------------------------
    serviceUrl,     \* ConfigUtils.getConfigProp("elevationServiceUrl") is set
    measurement,    \* props.measurement (the store's measurement state)
    isloading,      \* state.isloading
    data,           \* state.data
    inflight,       \* axios.post promises not yet settled
    nQueries,       \* number of requests issued so far (the newest request's id)
    call,           \* the last call of one of the computing functions: input and result
    \* ---- three.js scene graph (EditTool3D.jsx) --------------------------
    scene,          \* the Object3D nodes: parent, children, position, colours
    lastOp,         \* history: the operation the last step performed
    pickedColor,    \* history: per member, the colour dissolve has to restore
    nDrags,         \* number of gadget translations so far
    \* ---- EditTool3D -----------------------------------------------------
    mounted,        \* between componentDidMount and componentWillUnmount
    selectedObject, \* props.selectedObject
    attached,       \* transformControls.object
    dragging,       \* transformControls.dragging
    selectCount,    \* state.selectCount
    csgBackup,      \* state.csgBackup
    pointerup,      \* the canvas' pointerup listeners
    pointermove,    \* number of pointermove listeners on the canvas
    cleanDown,      \* history: a left pointerdown off the gadget, no move since
    csgSnap,        \* history: the operands as they were before the operation
    nCsg,           \* number of boolean operations so far
    enabled,        \* transformControls.enabled
    listeners,      \* the tool's pointerdown, keydown and keyup listeners on the canvas
    positionStart   \* the gadget's _positionStart while it is dragging

hpVars == <<serviceUrl, measurement, isloading, data, inflight, nQueries, call>>

gsVars == <<scene, lastOp, pickedColor, nDrags>>

etVars == <<mounted, selectedObject, attached, dragging, selectCount, csgBackup,
            pointerup, pointermove, cleanDown, csgSnap, nCsg>>

kbVars == <<enabled, listeners, positionStart>>

vars == <<hpVars, gsVars, etVars, kbVars>>

(***************************************************************************)
(*                     three.js scene graph (Object3D)                     *)
(*                                                                         *)
(* Nodes carry a translation only.  A Vector3 is modelled by one of its    *)
(* coordinates: add, sub, copy, divideScalar and the translation part of   *)
(* attach act on each coordinate alike.  Coordinates are exact multiples   *)
(* of 1/Unit, so that the centre of up to three members is exact.          *)
(***************************************************************************)

Null == "null"

\* The fixed part of the scene: the scene root, the draw group (drawGroupId),
\* a nested group inside the draw group, and a mesh outside the draw group.
Root == "scene"
DrawGroup == "D"
SubGroup == "S"
Terrain == "T"
\* Meshes drawn by the user, GroupSelection instances, CSG results
BaseMeshes == {"A", "B", "C"}
Groups == {"G1", "G2"}
Results == {"R1", "R2"}
Meshes == BaseMeshes \cup Results \cup {Terrain}
Nodes == {Root, DrawGroup, SubGroup} \cup Meshes \cup Groups

\* One length unit in the fixed-point representation of a coordinate.
Unit == 6

\* material.color values (one channel); Highlight is 0xFF0000.
Highlight == 16
Palette == {0, 8, Highlight}
\* The colours the user picks in the ColorButton during a run
PickedColors == {8}
\* userData.originalColor is absent (deleted, or never set)
NoColor == -1

Elems(seq) == {seq[i] : i \in 1..Len(seq)}

RECURSIVE Without(_, _)
Without(seq, x) ==
    IF seq = <<>> THEN <<>>
    ELSE IF Head(seq) = x THEN Without(Tail(seq), x)
    ELSE <<Head(seq)>> \o Without(Tail(seq), x)

RECURSIVE SumOver(_, _)
SumOver(f, seq) ==
    IF seq = <<>> THEN 0 ELSE f[Head(seq)] + SumOver(f, Tail(seq))

\* Object3D.matrixWorld (translation): the node's position in world space.
\* A node without parent has its local matrix as world matrix.
RECURSIVE World(_, _)
World(g, n) ==
    IF g.parent[n] = Null THEN g.position[n]
    ELSE World(g, g.parent[n]) + g.position[n]

\* Object3D.remove(object), called as object.removeFromParent()
removeFromParent(g, o) ==
    LET p == g.parent[o]
    IN  IF p = Null \/ o \notin Elems(g.children[p]) THEN g
        ELSE [g EXCEPT !.children[p] = Without(@, o), !.parent[o] = Null]

\* children.push(object).  The tool reads the order of the children of a
\* GroupSelection only; the children of the other nodes are kept in one
\* fixed order (NodeOrder), whatever the order they were pushed in.
NodeOrder == <<"scene", "D", "S", "T", "A", "B", "C", "R1", "R2", "G1", "G2">>
Rank(n) == CHOOSE i \in 1..Len(NodeOrder) : NodeOrder[i] = n

RECURSIVE Insert(_, _)
Insert(seq, x) ==
    IF seq = <<>> THEN <<x>>
    ELSE IF Rank(x) < Rank(Head(seq)) THEN <<x>> \o seq
    ELSE <<Head(seq)>> \o Insert(Tail(seq), x)

push(g, p, o) ==
    IF p \in Groups THEN Append(g.children[p], o) ELSE Insert(g.children[p], o)

\* Object3D.add(object): no change of the object's local position
add(g, p, o) ==
    LET g1 == removeFromParent(g, o)
    IN  [g1 EXCEPT !.parent[o] = p, !.children[p] = push(g1, p, o)]

\* Object3D.attach(object): keeps the object's world transform, computed
\* from object.parent's world matrix when the object has a parent
attach(g, p, o) ==
    LET from == IF g.parent[o] # Null THEN World(g, g.parent[o]) ELSE 0
        g1 == [g EXCEPT !.position[o] = @ + from - World(g, p)]
    IN  add(g1, p, o)

\* Color.set(value): a missing value leaves the colour as it is
colorSet(g, o, value) ==
    IF value = NoColor THEN g ELSE [g EXCEPT !.color[o] = value]

\* Where the nodes are when the tool is mounted: A directly in the draw
\* group, B and C in the nested group
InitParent ==
    [n \in Nodes |->
        CASE n = "A" -> DrawGroup
          [] n \in {"B", "C"} -> SubGroup
          [] n = SubGroup -> DrawGroup
          [] n \in {DrawGroup, Terrain} -> Root
          [] OTHER -> Null]

InitScene ==
    /\ scene =
        [parent   |-> InitParent,
         children |-> [n \in Nodes |->
                          CASE n = Root -> <<DrawGroup, Terrain>>
                            [] n = DrawGroup -> <<SubGroup, "A">>
                            [] n = SubGroup -> <<"B", "C">>
                            [] OTHER -> <<>>],
         position |-> [n \in Nodes |->
                          CASE n = "A" -> 0
                            [] n = "B" -> 2 * Unit
                            [] n = "C" -> 3 * Unit
                            [] n = SubGroup -> Unit
                            [] OTHER -> 0],
         color    |-> [n \in Nodes |->
                          CASE n = "A" -> 0
                            [] n = "B" -> Highlight
                            [] n \in {"C", Terrain} -> 8
                            [] OTHER -> 0],
         saved    |-> [n \in Nodes |-> NoColor],
         backup   |-> [n \in Nodes |-> <<>>],
         dirty    |-> FALSE]
    /\ lastOp = [op |-> "init", grp |-> Null, obj |-> Null, n |-> 0, par |-> Null]
    /\ pickedColor = [n \in Nodes |-> NoColor]
    /\ nDrags = 0

(***************************************************************************)
(*                          class GroupSelection                           *)
(***************************************************************************)

hasObject(g, grp, o) == o \in Elems(g.children[grp])

\* this.children.forEach(child => child.position.add(this.position))
childrenAddPosition(g, grp) ==
    [g EXCEPT !.position = [n \in Nodes |->
        IF n \in Elems(g.children[grp]) THEN @[n] + g.position[grp] ELSE @[n]]]

\* recomputePosition without re-expressing the children relative to the centre
recomputePosition_keepsChildren(g, grp) ==
    LET kids == g.children[grp]
    IN  IF Len(kids) = 0
        THEN [g EXCEPT !.position[grp] = 0]
        ELSE [g EXCEPT !.position[grp] = SumOver(g.position, kids) \div Len(kids)]

recomputePosition(g, grp) ==
    LET kids == g.children[grp]
    IN  IF Len(kids) = 0
        THEN [g EXCEPT !.position[grp] = 0]
        ELSE LET center == SumOver(g.position, kids) \div Len(kids)
             IN  [g EXCEPT !.position = [n \in Nodes |->
                     IF n = grp THEN center
                     ELSE IF n \in Elems(kids) THEN @[n] - center
                     ELSE @[n]]]

addToSelection(g, grp, o) ==
    LET g1 == childrenAddPosition(g, grp)
        g2 == add(g1, grp, o)
        g3 == [g2 EXCEPT !.saved[o] = g2.color[o]]
        g4 == colorSet(g3, o, Highlight)
    IN  recomputePosition(g4, grp)

\* this.parent.attach(object) throws when the group has no parent
removeFromSelection(g, grp, o) ==
    LET g1 == attach(g, g.parent[grp], o)
        g2 == colorSet(g1, o, g1.saved[o])
        g3 == [g2 EXCEPT !.saved[o] = NoColor]
        g4 == childrenAddPosition(g3, grp)
    IN  recomputePosition(g4, grp)

\* A round of dissolve that leaves the highlight colour on the child
dissolveStep_keepsHighlight(g, grp) ==
    LET kids == g.children[grp]
        o == kids[Len(kids)]
        g1 == [g EXCEPT !.children[grp] = SubSeq(kids, 1, Len(kids) - 1)]
        g3 == [g1 EXCEPT !.saved[o] = NoColor]
    IN  attach(g3, g3.parent[grp], o)

\* One round of the loop of dissolve: pop the last child, restore it
dissolveStep(g, grp) ==
    LET kids == g.children[grp]
        o == kids[Len(kids)]
        g1 == [g EXCEPT !.children[grp] = SubSeq(kids, 1, Len(kids) - 1)]
        g2 == colorSet(g1, o, g1.saved[o])
        g3 == [g2 EXCEPT !.saved[o] = NoColor]
    IN  attach(g3, g3.parent[grp], o)

RECURSIVE dissolveLoop(_, _)
dissolveLoop(g, grp) ==
    IF Len(g.children[grp]) = 0 THEN g
    ELSE dissolveLoop(dissolveStep(g, grp), grp)

\* dissolve without the final removeFromParent
dissolve_keepsGroupNode(g, grp) == dissolveLoop(g, grp)

dissolve(g, grp) == removeFromParent(dissolveLoop(g, grp), grp)

\* The calls that end in a TypeError (this.parent is null)
removeFromSelectionThrows(g, grp) == g.parent[grp] = Null
dissolveThrows(g, grp) == Len(g.children[grp]) > 0 /\ g.parent[grp] = Null

(***************************************************************************)
(* SpecGS: the public methods of one GroupSelection, called in any order   *)
(* that does not throw, as the controller calls them: the group is created *)
(* and added to a parent (addRemoveFromSelection) or filled first and      *)
(* added afterwards (undoCsgOperation); the gadget translates it; the      *)
(* colour branch of componentDidUpdate rewrites the saved colours.         *)
(***************************************************************************)

\* Number of gadget translations in one run.
MaxDrags == 1

TheGroup == "G1"

\* The history record of a step: the method, its argument, and the group's
\* member count and parent before the call
Op(name, o) == [op |-> name, grp |-> TheGroup, obj |-> o,
                n |-> Len(scene.children[TheGroup]),
                par |-> scene.parent[TheGroup]]

InScene(g, n) == g.parent[n] # Null

\* new GroupSelection(); object.parent.add(group); group.addToSelection(object)
GSNewInParent ==
    \E o \in BaseMeshes :
        /\ InScene(scene, o)
        /\ scene.parent[TheGroup] = Null
        /\ Len(scene.children[TheGroup]) = 0
        /\ scene' = addToSelection(add([scene EXCEPT !.position[TheGroup] = 0],
                                       scene.parent[o], TheGroup), TheGroup, o)
        /\ pickedColor' = [pickedColor EXCEPT ![o] = scene.color[o]]
        /\ lastOp' = Op("addToSelection", o)
        /\ UNCHANGED nDrags

\* parent.add(group), after the group was filled
GSParentAdd ==
    \E p \in {DrawGroup, SubGroup} :
        /\ scene.parent[TheGroup] = Null
        /\ Len(scene.children[TheGroup]) > 0
        /\ scene' = add(scene, p, TheGroup)
        /\ lastOp' = Op("parent.add", p)
        /\ UNCHANGED <<pickedColor, nDrags>>

GSAddToSelection ==
    \E o \in BaseMeshes :
        /\ InScene(scene, o)
        /\ ~hasObject(scene, TheGroup, o)
        /\ scene' = addToSelection(scene, TheGroup, o)
        /\ pickedColor' = [pickedColor EXCEPT ![o] = scene.color[o]]
        /\ lastOp' = Op("addToSelection", o)
        /\ UNCHANGED nDrags

GSRemoveFromSelection ==
    \E o \in BaseMeshes :
        /\ hasObject(scene, TheGroup, o)
        /\ ~removeFromSelectionThrows(scene, TheGroup)
        /\ scene' = removeFromSelection(scene, TheGroup, o)
        /\ pickedColor' = [pickedColor EXCEPT ![o] = NoColor]
        /\ lastOp' = Op("removeFromSelection", o)
        /\ UNCHANGED nDrags

GSDissolve ==
    /\ ~dissolveThrows(scene, TheGroup)
    /\ scene' = dissolve(scene, TheGroup)
    /\ pickedColor' = [n \in Nodes |-> NoColor]
    /\ lastOp' = Op("dissolve", Null)
    /\ UNCHANGED nDrags

\* The gadget, attached to the group, translates it
GSTranslate ==
    /\ nDrags < MaxDrags
    /\ InScene(scene, TheGroup)
    /\ scene' = [scene EXCEPT !.position[TheGroup] = @ + Unit]
    /\ nDrags' = nDrags + 1
    /\ lastOp' = Op("translate", Null)
    /\ UNCHANGED pickedColor

\* child.userData.originalColor.setRGB(...) for every child
GSSetOriginalColor ==
    \E c \in PickedColors :
        /\ Len(scene.children[TheGroup]) > 0
        /\ scene' = [scene EXCEPT !.saved = [n \in Nodes |->
               IF n \in Elems(scene.children[TheGroup]) THEN c ELSE @[n]]]
        /\ pickedColor' = [n \in Nodes |->
               IF n \in Elems(scene.children[TheGroup]) THEN c ELSE pickedColor[n]]
        /\ lastOp' = Op("originalColor.setRGB", Null)
        /\ UNCHANGED nDrags

NextGS ==
    \/ GSNewInParent /\ UNCHANGED <<hpVars, etVars, kbVars>>
    \/ GSParentAdd /\ UNCHANGED <<hpVars, etVars, kbVars>>
    \/ GSAddToSelection /\ UNCHANGED <<hpVars, etVars, kbVars>>
    \/ GSRemoveFromSelection /\ UNCHANGED <<hpVars, etVars, kbVars>>
    \/ GSDissolve /\ UNCHANGED <<hpVars, etVars, kbVars>>
    \/ GSTranslate /\ UNCHANGED <<hpVars, etVars, kbVars>>
    \/ GSSetOriginalColor /\ UNCHANGED <<hpVars, etVars, kbVars>>

(***************************************************************************)
(*                         class EditTool3D                                *)
(*                                                                         *)
(* The handlers are functions of a record st holding the scene graph (g),  *)
(* props.selectedObject (sel), the gadget's target (att), state.selectCount*)
(* (cnt) and state.csgBackup (bak).  props.objectPicked makes the parent   *)
(* replace props.selectedObject, which runs componentDidUpdate before the  *)
(* next event.  The model ends at componentWillUnmount.                    *)
(***************************************************************************)

\* Number of boolean operations in one run.
MaxCsg == 1
\* Number of left pointerdown events off the gadget in one run (each adds a
\* pointermove listener).
MaxPointerDowns == 4

Operations == {"union", "subtract", "intersect"}

\* Color.lerpColors(a, b, 0.5)
lerpColors(a, b) == (a + b) \div 2

\* The offsets by which the result is re-centred: the centre of the bounding
\* box of its geometry, which is not modelled
BoundingBoxCenters == {0, Unit}

St == [g |-> scene, sel |-> selectedObject, att |-> attached,
       cnt |-> selectCount, bak |-> csgBackup, live |-> mounted]

\* scene.notifyChange(): a redraw is scheduled.  The field dirty of the scene
\* says that the graph was changed and notifyChange not called since.
notifyChange(g) == [g EXCEPT !.dirty = FALSE]

\* the graph new a handler made of the graph old
Touch(old, new) == [new EXCEPT !.dirty = old.dirty \/ new # old]

\* A GroupSelection / CSG result instance no reference leads to any more
Unreferenced(st, n) ==
    /\ st.g.parent[n] = Null
    /\ st.g.children[n] = <<>>
    /\ st.sel # n
    /\ st.att # n
    /\ n \notin Elems(st.bak)
    /\ \A m \in Nodes : n \notin Elems(st.g.backup[m])

\* The first instance of a pool that no reference leads to
FirstUnreferenced(st, pool) ==
    LET free == {i \in 1..Len(pool) : Unreferenced(st, pool[i])}
    IN  pool[CHOOSE i \in free : \A j \in free : i <= j]

\* new GroupSelection()
NewGroup(st) == FirstUnreferenced(st, <<"G1", "G2">>)

\* the Mesh a CSG operation returns
NewResult(st) == FirstUnreferenced(st, <<"R1", "R2">>)

\* componentDidUpdate without the clearCsgBackup of the former selection
componentDidUpdate_keepsBackup(st, prev) ==
    LET st1 == IF prev # Null THEN [st EXCEPT !.att = Null] ELSE st
        s == st.sel
        st3 == IF s = Null THEN [st1 EXCEPT !.cnt = 0]
               ELSE LET st2 == [st1 EXCEPT !.att = s,
                                  !.cnt = IF s \notin Groups THEN 1
                                          ELSE Len(st.g.children[s])]
                    IN  IF st.g.backup[s] # <<>>
                        THEN [st2 EXCEPT !.bak = st.g.backup[s], !.g.backup[s] = <<>>]
                        ELSE st2
    IN  [st3 EXCEPT !.g = notifyChange(@)]

\* componentDidUpdate, the branch for a changed props.selectedObject
componentDidUpdate(st, prev) ==
    LET st1 == IF prev # Null
               THEN [st EXCEPT !.att = Null, !.bak = <<>>]
               ELSE st
        s == st.sel
        st3 == IF s = Null THEN [st1 EXCEPT !.cnt = 0]
               ELSE LET st2 == [st1 EXCEPT !.att = s,
                                  !.cnt = IF s \notin Groups THEN 1
                                          ELSE Len(st.g.children[s])]
                    IN  IF st.g.backup[s] # <<>>
                        THEN [st2 EXCEPT !.bak = st.g.backup[s], !.g.backup[s] = <<>>]
                        ELSE st2
    IN  [st3 EXCEPT !.g = notifyChange(@)]

\* props.objectPicked(object)
objectPicked(st, object) ==
    IF object = st.sel THEN st
    ELSE IF st.live THEN componentDidUpdate([st EXCEPT !.sel = object], st.sel)
    ELSE [st EXCEPT !.sel = object]

dissolveSelectionGroup(st) ==
    IF st.sel \in Groups THEN [st EXCEPT !.g = Touch(st.g, dissolve(st.g, st.sel))]
    ELSE st

\* addRemoveFromSelection with the group's hasObject test the other way round
addRemoveFromSelection_inverted(st, object) ==
    IF st.sel \in Groups
    THEN LET g1 == IF ~hasObject(st.g, st.sel, object)
                   THEN removeFromSelection(st.g, st.sel, object)
                   ELSE addToSelection(st.g, st.sel, object)
         IN  [st EXCEPT !.g = notifyChange(g1), !.cnt = Len(g1.children[st.sel])]
    ELSE LET grp == NewGroup(st)
             g0 == [st.g EXCEPT !.position[grp] = 0]
             g1 == add(g0, g0.parent[object], grp)
             g2 == addToSelection(g1, grp, object)
             g3 == IF st.sel # object THEN addToSelection(g2, grp, st.sel) ELSE g2
         IN  objectPicked([st EXCEPT !.g = Touch(st.g, g3)], grp)

\* addRemoveFromSelection without the setState of selectCount
addRemoveFromSelection_staleCount(st, object) ==
    IF st.sel \in Groups
    THEN LET g1 == IF hasObject(st.g, st.sel, object)
                   THEN removeFromSelection(st.g, st.sel, object)
                   ELSE addToSelection(st.g, st.sel, object)
         IN  [st EXCEPT !.g = notifyChange(g1)]
    ELSE LET grp == NewGroup(st)
             g0 == [st.g EXCEPT !.position[grp] = 0]
             g1 == add(g0, g0.parent[object], grp)
             g2 == addToSelection(g1, grp, object)
             g3 == IF st.sel # object THEN addToSelection(g2, grp, st.sel) ELSE g2
         IN  objectPicked([st EXCEPT !.g = Touch(st.g, g3)], grp)

addRemoveFromSelection(st, object) ==
    IF st.sel \in Groups
    THEN LET g1 == IF hasObject(st.g, st.sel, object)
                   THEN removeFromSelection(st.g, st.sel, object)
                   ELSE addToSelection(st.g, st.sel, object)
         IN  [st EXCEPT !.g = notifyChange(g1), !.cnt = Len(g1.children[st.sel])]
    ELSE LET grp == NewGroup(st)
             g0 == [st.g EXCEPT !.position[grp] = 0]
             g1 == add(g0, g0.parent[object], grp)
             g2 == addToSelection(g1, grp, object)
             g3 == IF st.sel # object THEN addToSelection(g2, grp, st.sel) ELSE g2
         IN  objectPicked([st EXCEPT !.g = Touch(st.g, g3)], grp)

\* for (parent = object.parent; parent; parent = parent.parent)
\*     if (parent === drawGroup)
RECURSIVE WithinDrawGroup(_, _)
WithinDrawGroup(g, n) ==
    /\ g.parent[n] # Null
    /\ (g.parent[n] = DrawGroup \/ WithinDrawGroup(g, g.parent[n]))

\* the objects getSceneIntersection can return: the meshes of the scene
RECURSIVE Rendered(_, _)
Rendered(g, n) ==
    n = Root \/ (g.parent[n] # Null /\ Rendered(g, g.parent[n]))

Intersections(g) == {Null} \cup {m \in Meshes : Rendered(g, m)}

selectShape(st, ctrlKey, object) ==
    IF object # Null /\ WithinDrawGroup(st.g, object)
    THEN IF ctrlKey /\ st.sel # Null
         THEN addRemoveFromSelection(st, object)
         ELSE objectPicked(dissolveSelectionGroup(st), object)
    ELSE IF ~ctrlKey
         THEN objectPicked(dissolveSelectionGroup(st), Null)
         ELSE st

\* applyCsgOperation blending the colours the operands show in the group
applyCsgOperation_shownColors(st, offset) ==
    LET grp == st.sel
        children == st.g.children[grp]
        a == children[1]
        b == children[2]
        result == NewResult(st)
        parent == st.g.parent[grp]
        \* CSG.union(a, b): a new Mesh carrying the transform of a
        g0 == [st.g EXCEPT !.position[result] = st.g.position[a] + st.g.position[grp],
                           !.saved[result] = NoColor]
        g1 == dissolve(g0, grp)
        g2 == removeFromParent(removeFromParent(g1, a), b)
        g3 == [g2 EXCEPT !.color[result] = lerpColors(st.g.color[a], st.g.color[b]),
                         !.backup[result] = children]
        g4 == attach(g3, parent, result)
        g5 == [g4 EXCEPT !.position[result] = @ + offset]
    IN  objectPicked([st EXCEPT !.g = Touch(st.g, g5)], result)

\* applyCsgOperation for a result re-centred by offset; the three operations
\* differ in the geometry of the result only, which is not modelled
applyCsgOperation(st, offset) ==
    LET grp == st.sel
        children == st.g.children[grp]
        a == children[1]
        b == children[2]
        result == NewResult(st)
        parent == st.g.parent[grp]
        \* CSG.union(a, b): a new Mesh carrying the transform of a
        g0 == [st.g EXCEPT !.position[result] = st.g.position[a] + st.g.position[grp],
                           !.saved[result] = NoColor]
        g1 == dissolve(g0, grp)
        g2 == removeFromParent(removeFromParent(g1, a), b)
        g3 == [g2 EXCEPT !.color[result] = lerpColors(g2.color[a], g2.color[b]),
                         !.backup[result] = children]
        g4 == attach(g3, parent, result)
        g5 == [g4 EXCEPT !.position[result] = @ + offset]
    IN  objectPicked([st EXCEPT !.g = Touch(st.g, g5)], result)

undoCsgOperation(st) ==
    LET parent == st.g.parent[st.sel]
        a == st.bak[1]
        b == st.bak[2]
        group == NewGroup(st)
        g1 == attach(attach(st.g, parent, a), parent, b)
        g2 == removeFromParent(g1, st.sel)
        g3 == [g2 EXCEPT !.position[group] = 0]
        g4 == addToSelection(addToSelection(g3, group, a), group, b)
        g5 == add(g4, parent, group)
    IN  objectPicked([st EXCEPT !.g = Touch(st.g, g5)], group)

\* the colour branch setting the members' material colour, not the saved one
colorChanged_material(st, c) ==
    IF st.sel = Null THEN st
    ELSE IF st.sel \notin Groups
         THEN [st EXCEPT !.g = notifyChange([@ EXCEPT !.color[st.sel] = c])]
         ELSE [st EXCEPT !.g = notifyChange([@ EXCEPT !.color = [n \in Nodes |->
                 IF n \in Elems(st.g.children[st.sel]) THEN c ELSE @[n]]])]

\* componentDidUpdate, the branch for a changed props.color
colorChanged(st, c) ==
    IF st.sel = Null THEN st
    ELSE IF st.sel \notin Groups
         THEN [st EXCEPT !.g = notifyChange([@ EXCEPT !.color[st.sel] = c])]
         ELSE [st EXCEPT !.g = notifyChange([@ EXCEPT !.saved = [n \in Nodes |->
                 IF n \in Elems(st.g.children[st.sel]) THEN c ELSE @[n]]])]

componentWillUnmount(st) ==
    LET st1 == dissolveSelectionGroup([st EXCEPT !.bak = <<>>])
    IN  [st1 EXCEPT !.att = Null, !.g = notifyChange(@)]

\* EventTarget.addEventListener: a listener already in the list is not added
addEventListener(list, callback) ==
    IF callback \in Elems(list) THEN list ELSE Append(list, callback)

\* ---- the steps ----------------------------------------------------------

\* The instances no reference leads to any more are garbage: their fields
\* are reset, so that equal scenes are equal states
Collect(st) ==
    LET dead == {n \in BaseMeshes \cup Results \cup Groups : Unreferenced(st, n)}
    IN  [st.g EXCEPT !.position = [n \in Nodes |-> IF n \in dead THEN 0 ELSE @[n]],
                     !.color = [n \in Nodes |-> IF n \in dead THEN 0 ELSE @[n]],
                     !.saved = [n \in Nodes |-> IF n \in dead THEN NoColor ELSE @[n]],
                     !.backup = [n \in Nodes |-> IF n \in dead THEN <<>> ELSE @[n]]]

Commit(st) ==
    /\ scene' = Collect(st)
    /\ selectedObject' = st.sel
    /\ attached' = st.att
    /\ selectCount' = st.cnt
    /\ csgBackup' = st.bak

\* What a handler that runs on the unmounted component leaves: the scene
\* and the parent's selection change, componentDidUpdate does not run
CommitUnmounted(st) ==
    /\ scene' = Collect([st EXCEPT !.att = attached, !.bak = csgBackup])
    /\ selectedObject' = st.sel
    /\ UNCHANGED <<attached, selectCount, csgBackup>>

EtOp(name) == [op |-> name, grp |-> Null, obj |-> <<>>, n |-> 0, par |-> Null]

\* The state componentDidMount leaves: the gadget attached to the selected
\* object, if there is one; pointerdown, keydown and keyup registered
InitET ==
    /\ mounted = TRUE
    /\ selectedObject \in {Null, "A"}
    /\ attached = selectedObject
    /\ dragging = FALSE
    /\ selectCount = 0
    /\ csgBackup = <<>>
    /\ pointerup = <<>>
    /\ pointermove = 0
    /\ cleanDown = FALSE
    /\ csgSnap = <<>>
    /\ nCsg = 0
    /\ enabled = TRUE
    /\ listeners = {"pointerdown", "keydown", "keyup"}
    /\ positionStart = 0

\* selectShapeOnRelease without the pointermove listener
selectShapeOnRelease_noMove(button) ==
    IF button = 0 /\ ~dragging'
    THEN /\ pointerup' = addEventListener(pointerup, "selectShape")
         /\ pointermove' = pointermove
    ELSE UNCHANGED <<pointerup, pointermove>>

\* selectShapeOnRelease, after the gadget's own pointerdown listener ran
selectShapeOnRelease(button) ==
    IF button = 0 /\ ~dragging'
    THEN /\ pointerup' = addEventListener(pointerup, "selectShape")
         /\ pointermove' = pointermove + 1
    ELSE UNCHANGED <<pointerup, pointermove>>

\* pointerdown on the canvas: the gadget (whose listener was registered
\* first) starts dragging when the pointer is on one of its handles
PointerDown ==
    \E button \in {0, 2}, onGadget \in BOOLEAN :
        /\ "pointerdown" \in listeners
        /\ onGadget => (attached # Null /\ enabled)
        /\ positionStart' = IF onGadget /\ button = 0 /\ ~dragging
                             THEN scene.position[attached] ELSE positionStart
        /\ UNCHANGED <<enabled, listeners>>
        /\ dragging' = (dragging \/ (onGadget /\ button = 0))
        /\ (button = 0 /\ ~dragging') => pointermove < MaxPointerDowns
        /\ selectShapeOnRelease(button)
        /\ cleanDown' = (cleanDown \/ (button = 0 /\ ~dragging'))
        /\ lastOp' = [EtOp("pointerdown") EXCEPT !.n = IF button = 0 /\ ~dragging' THEN 1 ELSE 0]
        /\ UNCHANGED <<scene, pickedColor, nDrags, mounted, selectedObject, attached,
                       selectCount, csgBackup, csgSnap, nCsg>>

\* pointermove on the canvas: every listener selectShapeOnRelease added
\* removes selectShape from pointerup; a dragging gadget translates its target
PointerMove ==
    \E delta \in {0, Unit} :
        /\ mounted \/ pointermove > 0
        /\ delta # 0 => (dragging /\ attached # Null /\ nDrags < MaxDrags)
        /\ pointerup' = IF pointermove > 0 THEN Without(pointerup, "selectShape")
                        ELSE pointerup
        /\ scene' = IF delta # 0
                    THEN notifyChange([scene EXCEPT !.position[attached] = @ + delta])
                    ELSE scene
        /\ nDrags' = IF delta # 0 THEN nDrags + 1 ELSE nDrags
        /\ cleanDown' = FALSE
        /\ lastOp' = EtOp("pointermove")
        /\ UNCHANGED <<pickedColor, mounted, selectedObject, attached, dragging,
                       selectCount, csgBackup, pointermove, csgSnap, nCsg>>

\* pointerup on the canvas: selectShape if it is registered ({once: true}),
\* then the gadget's mouseUp (toolChanged, clearCsgBackup) if it was dragging
PointerUp ==
    \E ctrlKey \in BOOLEAN, object \in Intersections(scene) :
        LET runs == Len(pointerup)
            st1 == IF runs > 0 THEN selectShape(St, ctrlKey, object) ELSE St
            st2 == IF dragging THEN [st1 EXCEPT !.bak = <<>>] ELSE st1
        IN  /\ mounted \/ pointerup # <<>>
            /\ IF mounted THEN Commit(st2) ELSE CommitUnmounted(st2)
            /\ pointerup' = <<>>
            /\ dragging' = FALSE
            /\ positionStart' = 0
            /\ UNCHANGED <<enabled, listeners>>
            /\ lastOp' = [EtOp("pointerup") EXCEPT !.n = runs]
            /\ csgSnap' = IF dragging \/ st2.sel # selectedObject THEN <<>> ELSE csgSnap
            /\ UNCHANGED <<pickedColor, nDrags, mounted, pointermove, cleanDown, nCsg>>

\* The snapshot of the two operands taken when the operation starts, with
\* the composite the operation is about to return.  It is kept until a drag
\* of the gadget completes, the selected object changes or the tool unmounts.
Snapshot(st) ==
    LET g == st.g
        grp == st.sel
        a == g.children[grp][1]
        b == g.children[grp][2]
    IN  <<[a |-> a, b |-> b, res |-> NewResult(st), par |-> g.parent[grp],
           worldA |-> World(g, a), worldB |-> World(g, b),
           colorA |-> g.color[a], colorB |-> g.color[b],
           savedA |-> g.saved[a], savedB |-> g.saved[b]]>>

\* a button of the CSG controls bar, rendered while state.selectCount is 2
ApplyCsgOperation ==
    \E operation \in Operations, offset \in BoundingBoxCenters :
        /\ mounted
        /\ selectCount = 2
        /\ nCsg < MaxCsg
        /\ Commit(applyCsgOperation(St, offset))
        /\ nCsg' = nCsg + 1
        /\ csgSnap' = Snapshot(St)
        /\ lastOp' = [EtOp("applyCsgOperation") EXCEPT
                        !.obj = <<operation>> \o scene.children[selectedObject]]
        /\ UNCHANGED <<pickedColor, nDrags, mounted, dragging, pointerup,
                       pointermove, cleanDown>>

\* the undo button, rendered while state.csgBackup is set
UndoCsgOperation ==
    /\ mounted
    /\ csgBackup # <<>>
    /\ Commit(undoCsgOperation(St))
    /\ csgSnap' = <<>>
    /\ lastOp' = [EtOp("undoCsgOperation") EXCEPT !.obj = csgSnap]
    /\ UNCHANGED <<pickedColor, nDrags, mounted, dragging, pointerup,
                   pointermove, cleanDown, nCsg>>

\* the ColorButton: the parent replaces props.color
ColorChanged ==
    \E c \in PickedColors :
        /\ mounted
        /\ Commit(colorChanged(St, c))
        /\ lastOp' = EtOp("colorChanged")
        /\ UNCHANGED <<pickedColor, nDrags, mounted, dragging, pointerup,
                       pointermove, cleanDown, csgSnap, nCsg>>

Unmount ==
    /\ mounted
    /\ Commit(componentWillUnmount(St))
    /\ mounted' = FALSE
    /\ dragging' = FALSE
    /\ csgSnap' = <<>>
    /\ lastOp' = EtOp("componentWillUnmount")
    /\ listeners' = listeners \ {"pointerdown", "keydown"}
    /\ positionStart' = 0
    /\ UNCHANGED <<pickedColor, nDrags, pointerup, pointermove, cleanDown, nCsg, enabled>>

\* keydown on the canvas: Escape resets a running drag, Control disables
\* the gadget
KeyDown ==
    \E key \in {"Escape", "Control"} :
        /\ "keydown" \in listeners
        /\ enabled' = IF key = "Control" THEN FALSE ELSE enabled
        /\ scene' = IF key = "Escape" /\ enabled /\ dragging /\ attached # Null
                    THEN notifyChange([scene EXCEPT !.position[attached] = positionStart])
                    ELSE scene
        /\ lastOp' = EtOp("onKeyDown")
        /\ UNCHANGED <<pickedColor, nDrags, etVars, listeners, positionStart>>

\* keyup on the canvas: Control enables the gadget again
KeyUp ==
    \E key \in {"Escape", "Control"} :
        /\ "keyup" \in listeners
        /\ enabled' = IF key = "Control" THEN TRUE ELSE enabled
        /\ lastOp' = EtOp("onKeyUp")
        /\ UNCHANGED <<scene, pickedColor, nDrags, etVars, listeners, positionStart>>

\* A click on the canvas: pointerdown and pointerup without a pointermove
\* between them, which runs selectShape (see SpecPtr)
Click ==
    \E ctrlKey \in BOOLEAN, object \in Intersections(scene) :
        LET st == selectShape(St, ctrlKey, object)
        IN  /\ mounted
            /\ Commit(st)
            /\ csgSnap' = IF st.sel # selectedObject THEN <<>> ELSE csgSnap
            /\ lastOp' = EtOp("selectShape")
            /\ UNCHANGED <<pickedColor, nDrags, mounted, dragging, pointerup,
                           pointermove, cleanDown, nCsg>>

\* A drag of the gadget: it translates its target (in translate mode) and
\* dispatches mouseUp, handled by toolChanged and clearCsgBackup
GadgetDrag ==
    \E delta \in {0, Unit} :
        /\ mounted
        /\ attached # Null
        /\ delta # 0 => nDrags < MaxDrags
        /\ scene' = Collect([St EXCEPT
                               !.g = notifyChange([@ EXCEPT !.position[attached] = @ + delta]),
                               !.bak = <<>>])
        /\ nDrags' = IF delta # 0 THEN nDrags + 1 ELSE nDrags
        /\ csgBackup' = <<>>
        /\ csgSnap' = <<>>
        /\ lastOp' = EtOp("mouseUp")
        /\ UNCHANGED <<pickedColor, mounted, selectedObject, attached, dragging,
                       selectCount, pointerup, pointermove, cleanDown, nCsg>>

NextET ==
    \/ Click /\ UNCHANGED <<hpVars, kbVars>>
    \/ GadgetDrag /\ UNCHANGED <<hpVars, kbVars>>
    \/ ApplyCsgOperation /\ UNCHANGED <<hpVars, kbVars>>
    \/ UndoCsgOperation /\ UNCHANGED <<hpVars, kbVars>>
    \/ ColorChanged /\ UNCHANGED <<hpVars, kbVars>>
    \/ Unmount /\ UNCHANGED hpVars

\* The parent replaces props.selectedObject without a click in this tool
\* (another object picked or created elsewhere, or the selection reset):
\* componentDidUpdate runs for the new value.  The two GroupSelection
\* instances of the model allow one group to be left behind.
ExternalSelection ==
    \E object \in {Null} \cup {m \in Meshes : WithinDrawGroup(scene, m)} :
        /\ mounted
        /\ object # selectedObject
        /\ \A grp \in Groups : Rendered(scene, grp) => grp = selectedObject
        /\ Commit(objectPicked(St, object))
        /\ csgSnap' = <<>>
        /\ lastOp' = EtOp("selectedObject")
        /\ UNCHANGED <<pickedColor, nDrags, mounted, dragging, pointerup,
                       pointermove, cleanDown, nCsg>>

\* The tool with a parent that changes the selection on its own
NextExt ==
    \/ Click /\ UNCHANGED <<hpVars, kbVars>>
    \/ ExternalSelection /\ UNCHANGED <<hpVars, kbVars>>

\* The pointer listeners of the canvas, with the selections they make
NextPtr ==
    \/ PointerDown /\ UNCHANGED hpVars
    \/ PointerMove /\ UNCHANGED <<hpVars, kbVars>>
    \/ PointerUp /\ UNCHANGED hpVars

\* The canvas events and the unmount, with the events that come after it
NextLife ==
    \/ PointerDown /\ UNCHANGED hpVars
    \/ PointerMove /\ UNCHANGED <<hpVars, kbVars>>
    \/ PointerUp /\ UNCHANGED hpVars
    \/ KeyDown /\ UNCHANGED hpVars
    \/ KeyUp /\ UNCHANGED hpVars
    \/ Unmount /\ UNCHANGED hpVars

(***************************************************************************)
(*                              HeightProfile                              *)
(***************************************************************************)

\* Number of elevation requests one run may issue.
MaxQueries == 3

GeomTypes == {"LineString", "Polygon"}

\* How a request can settle: the promise resolves with a body holding an
\* elevations array, resolves with a body without one, or rejects.
Outcomes == {"ok", "malformed", "reject"}

\* state.data: {} | the reshaped series of a request | {error: String(e)}
EmptyData == [kind |-> "empty", query |-> 0]
SeriesData(q) == [kind |-> "series", query |-> q]
ErrorData(q) == [kind |-> "error", query |-> q]

\* lodash isEmpty(this.state.data)
isEmptyData(d) == d.kind = "empty"

\* render() returns null: the window with the close control is not shown
WidgetShown == ~isEmptyData(data) \/ isloading

\* none of the computing functions was called yet
NoCall == [op |-> "none"]

InitHP ==
    /\ serviceUrl \in BOOLEAN
    /\ measurement = [drawing |-> FALSE, geomType |-> "LineString",
                      coordsEmpty |-> TRUE, pickPositionCallback |-> FALSE]
    /\ isloading = FALSE
    /\ data = EmptyData
    /\ inflight = {}
    /\ nQueries = 0
    /\ call = NoCall

\* The condition of componentDidUpdate for issuing a query
Qualifies(m) ==
    m.drawing = FALSE /\ m.geomType = "LineString" /\ ~m.coordsEmpty

\* queryElevations: with a service URL, set isloading and post the request
queryElevations(m) ==
    IF serviceUrl
    THEN /\ isloading' = TRUE
         /\ inflight' = inflight \cup {nQueries + 1}
         /\ nQueries' = nQueries + 1
         /\ measurement' = m
         /\ UNCHANGED data
    ELSE /\ measurement' = m
         /\ UNCHANGED <<isloading, inflight, nQueries, data>>

\* componentDidUpdate after the store replaced measurement.coordinates
componentDidUpdateHP(drawing, geomType, coordsEmpty) ==
    LET m == [measurement EXCEPT !.drawing = drawing, !.geomType = geomType,
                                 !.coordsEmpty = coordsEmpty]
    IN  /\ (Qualifies(m) /\ serviceUrl) => nQueries < MaxQueries
        /\ IF Qualifies(m)
           THEN queryElevations(m)
           ELSE /\ measurement' =
                     IF ~isEmptyData(data)
                     THEN [m EXCEPT !.pickPositionCallback = FALSE]
                     ELSE m
                /\ UNCHANGED <<isloading, inflight, nQueries, data>>
        /\ UNCHANGED serviceUrl

MeasurementChanged ==
    \E drawing \in BOOLEAN, geomType \in GeomTypes, coordsEmpty \in BOOLEAN :
        componentDidUpdateHP(drawing, geomType, coordsEmpty)

\* the .then handler leaving the loading flag set when it takes the series
ResponseThen_keepsLoading(q, outcome) ==
    IF isloading # TRUE
    THEN UNCHANGED <<isloading, data, measurement>>
    ELSE IF outcome = "ok"
         THEN /\ isloading' = isloading
              /\ data' = SeriesData(q)
              /\ measurement' = [measurement EXCEPT !.pickPositionCallback = TRUE]
         ELSE /\ isloading' = FALSE
              /\ data' = ErrorData(q)
              /\ UNCHANGED measurement

\* The .then handler of request q, followed by the .catch handler when the
\* .then handler throws (response.data.elevations is not an array).
ResponseThen(q, outcome) ==
    IF isloading # TRUE
    THEN \* "Since aborted"
         UNCHANGED <<isloading, data, measurement>>
    ELSE IF outcome = "ok"
         THEN /\ isloading' = FALSE
              /\ data' = SeriesData(q)
              /\ measurement' = [measurement EXCEPT !.pickPositionCallback = TRUE]
         ELSE \* y.map throws a TypeError, handled by .catch
              /\ isloading' = FALSE
              /\ data' = ErrorData(q)
              /\ UNCHANGED measurement

\* the .catch handler leaving the loading flag as it is
ResponseCatch_keepsLoading(q) ==
    /\ isloading' = isloading
    /\ data' = ErrorData(q)
    /\ UNCHANGED measurement

\* The .catch handler of request q after the request itself failed
ResponseCatch(q) ==
    /\ isloading' = FALSE
    /\ data' = ErrorData(q)
    /\ UNCHANGED measurement

Response ==
    \E q \in inflight, outcome \in Outcomes :
        /\ inflight' = inflight \ {q}
        /\ IF outcome = "reject" THEN ResponseCatch(q) ELSE ResponseThen(q, outcome)
        /\ call' = [op |-> "response", query |-> q, outcome |-> outcome]
        /\ UNCHANGED <<serviceUrl, nQueries>>

\* onClose, the close control of the window
onClose ==
    /\ WidgetShown
    /\ data' = EmptyData
    /\ isloading' = FALSE
    /\ measurement' = [measurement EXCEPT !.pickPositionCallback = FALSE]
    /\ call' = [op |-> "onClose"]
    /\ UNCHANGED <<serviceUrl, inflight, nQueries>>

NextHP ==
    \/ MeasurementChanged /\ UNCHANGED <<gsVars, etVars, kbVars, call>>
    \/ Response /\ UNCHANGED <<gsVars, etVars, kbVars>>
    \/ onClose /\ UNCHANGED <<gsVars, etVars, kbVars>>

(***************************************************************************)
(*           HeightProfile: the reshape step of queryElevations            *)
(***************************************************************************)

\* Number.prototype.toFixed(0) of num / den (not negative): the nearest
\* integer, the larger one of two
toFixed0(num, den) == (2 * num + den) \div (2 * den)

\* NaN, which cumDist becomes when distances[++distIdx] is undefined; every
\* comparison with it is false
NaN == -1

\* y.map(...) from sample idx on (0-based, as distIdx): the distances x and
\* the nodes pushed by the callback
RECURSIVE reshapeMap(_, _, _, _, _, _, _, _)
reshapeMap(idx, len, totLength, distances, cumDist, distIdx, x, nodes) ==
    IF idx = len THEN [x |-> x, nodes |-> nodes]
    ELSE LET dist == toFixed0(idx * totLength, len - 1)
         IN  IF cumDist # NaN /\ dist >= cumDist
             THEN reshapeMap(idx + 1, len, totLength, distances,
                             IF distIdx + 2 <= Len(distances)
                             THEN cumDist + distances[distIdx + 2] ELSE NaN,
                             distIdx + 1, Append(x, dist), Append(nodes, dist))
             ELSE reshapeMap(idx + 1, len, totLength, distances, cumDist, distIdx,
                             Append(x, dist), nodes)

\* the .then handler from "Compute x-axis distances" on, for a response with
\* len elevations: data.x and the x of data.nodes
reshape(distances, totLength, len) ==
    LET m == reshapeMap(0, len, totLength, distances, distances[1], 0, <<>>, <<>>)
    IN  [x |-> m.x,
         nodes |-> <<m.x[1]>> \o m.nodes \o <<m.x[Len(m.x)]>>]

\* measurement.length: the sum of measurement.segment_lengths
RECURSIVE SumSeq(_)
SumSeq(seq) == IF seq = <<>> THEN 0 ELSE Head(seq) + SumSeq(Tail(seq))

\* The measured lines and sample counts the reshape step is applied to
MaxSegments == 3
MaxSamples == 5
SegmentLengths == {100, 200, 400, 600}
Lines == UNION {[1..n -> SegmentLengths] : n \in 1..MaxSegments}

\* a response with samples elevations arrives for a measured line
Reshape ==
    \E distances \in Lines, samples \in 2..MaxSamples :
        /\ call' = [op |-> "reshape", distances |-> distances, samples |-> samples,
                    out |-> reshape(distances, SumSeq(distances), samples)]
        /\ UNCHANGED <<serviceUrl, measurement, isloading, data, inflight, nQueries>>

NextReshape == Reshape /\ UNCHANGED <<gsVars, etVars, kbVars>>

(***************************************************************************)
(*                  HeightProfile: pickPositionCallback                    *)
(***************************************************************************)

\* Map positions: the points of a grid, <<x, y>>
GridX == {0, 100, 200}
GridY == {0, 100}
Points == GridX \X GridY

Abs(n) == IF n < 0 THEN -n ELSE n

\* MeasureUtils.computeSegmentLengths([p, q]) for two points on a line
\* parallel to an axis (the planar, not geodesic, measurement)
Distance(p, q) == Abs(p[1] - q[1]) + Abs(p[2] - q[2])

\* The measured lines: 2 or 3 vertices, every segment parallel to an axis
\* and longer than 0
AxisParallel(p, q) == p # q /\ (p[1] = q[1] \/ p[2] = q[2])
Polylines ==
    {c \in [1..2 -> Points] \cup [1..3 -> Points] :
        \A i \in 1..(Len(c) - 1) : AxisParallel(c[i], c[i + 1])}

\* measurement.segment_lengths of a line
segment_lengths(coo) == [i \in 1..(Len(coo) - 1) |-> Distance(coo[i], coo[i + 1])]

\* pointOnSegment without the test of the coordinate range
pointOnSegment_lineOnly(q, p1, p2) ==
    (p2[1] - p1[1]) * (q[2] - p1[2]) - (q[1] - p1[1]) * (p2[2] - p1[2]) = 0

\* pointOnSegment; on the grid a difference above the tolerance 1E-3 is a
\* difference other than 0
pointOnSegment(q, p1, p2) ==
    LET cross == (p2[1] - p1[1]) * (q[2] - p1[2]) - (q[1] - p1[1]) * (p2[2] - p1[2])
    IN  IF Abs(cross) > 0 THEN FALSE
        ELSE IF Abs(p1[1] - p2[1]) > 0
             THEN (p1[1] <= q[1] /\ q[1] <= p2[1]) \/ (p2[1] <= q[1] /\ q[1] <= p1[1])
             ELSE (p1[2] <= q[2] /\ q[2] <= p2[2]) \/ (p2[2] <= q[2] /\ q[2] <= p1[2])

\* the for loop of pickPositionCallback from segment iSegment (1-based) on
RECURSIVE pickLoop(_, _, _, _)
pickLoop(pos, coo, iSegment, x) ==
    IF iSegment > Len(coo) - 1 THEN x
    ELSE IF pointOnSegment(pos, coo[iSegment], coo[iSegment + 1])
         THEN x + Distance(pos, coo[iSegment])
         ELSE pickLoop(pos, coo, iSegment + 1, x + segment_lengths(coo)[iSegment])

Min(a, b) == IF a <= b THEN a ELSE b

\* pickPositionCallback(pos) for a position: the index given to showTooltip.
\* Math.floor(Math.min(1, x / totLength) * samples) in exact arithmetic.
pickPositionCallback(pos, coo, totLength, ylength, samples) ==
    LET x == pickLoop(pos, coo, 1, 0)
        floor == IF x >= totLength THEN samples ELSE (x * samples) \div totLength
    IN  Min(ylength - 1, floor)

\* a line is measured: props.measurement.coordinates
MeasureLine ==
    \E coo \in Polylines :
        /\ call' = [op |-> "measured", coo |-> coo]
        /\ UNCHANGED <<serviceUrl, measurement, isloading, data, inflight, nQueries>>

\* the map reports a position on the measured line's map while a series of
\* samples elevations is held
PickPosition ==
    \E pos \in Points, samples \in 2..MaxSamples :
        /\ call.op \in {"measured", "pickPosition"}
        /\ call' = [op |-> "pickPosition", coo |-> call.coo, pos |-> pos,
                    samples |-> samples,
                    out |-> pickPositionCallback(pos, call.coo,
                                                 SumSeq(segment_lengths(call.coo)),
                                                 samples, samples)]
        /\ UNCHANGED <<serviceUrl, measurement, isloading, data, inflight, nQueries>>

NextPick ==
    \/ MeasureLine /\ UNCHANGED <<gsVars, etVars, kbVars>>
    \/ PickPosition /\ UNCHANGED <<gsVars, etVars, kbVars>>

(***************************************************************************)
(*                      HeightProfile: exportProfile                       *)
(***************************************************************************)

\* Numbers with decimals are counted in thousandths: 12345 is 12.345
Thousand == 1000

\* Math.pow(10, n) for the precisions of the model
Pow10(n) == CASE n = 0 -> 1 [] n = 1 -> 10 [] n = 2 -> 100 [] n = 3 -> 1000 [] n = 4 -> 10000

\* Math.round(num / den), den > 0: the nearest integer, the larger one of two
MathRound(num, den) == (2 * num + den) \div (2 * den)

\* Math.round(v * Math.pow(10, p)) / Math.pow(10, p) for v in thousandths,
\* the result in thousandths (p <= 3)
roundTo_floor(v, p) == ((v * Pow10(p)) \div Thousand) * (Thousand \div Pow10(p))

roundTo(v, p) == MathRound(v * Pow10(p), Thousand) * (Thousand \div Pow10(p))

\* props.heighProfilePrecision and the elevations of the responses
MaxPrecision == 2
Elevations == {0, 999, 12345, 12350, -12350}

\* the rows after the header, from sample idx (0-based) on; data.x holds
\* the strings of whole numbers toFixed(0) made
RECURSIVE exportRows(_, _, _, _)
exportRows(x, y, idx, precision) ==
    IF idx = Len(x) THEN <<>>
    ELSE <<(<<idx, roundTo(x[idx + 1] * Thousand, precision),
              roundTo(y[idx + 1], precision)>>)>>
            \o exportRows(x, y, idx + 1, precision)

\* exportProfile: the lines of the file given to FileSaver.saveAs, or no file
exportProfile(d, precision) ==
    IF d.kind # "series" THEN [saved |-> FALSE]
    ELSE [saved |-> TRUE,
          csv |-> <<(<<"index", "distance", "elevation">>)>>
                     \o exportRows(d.x, d.y, 0, precision)]

\* the states of state.data the export control can be used in
ExportData ==
    {[kind |-> "empty"], [kind |-> "error"]}
        \cup {[kind |-> "series", x |-> reshape(<<1001>>, 1001, n).x, y |-> y] :
                 n \in 2..3, y \in [1..2 -> Elevations] \cup [1..3 -> Elevations]}

\* the export control of the window
ExportProfile ==
    \E d \in ExportData, precision \in 0..MaxPrecision :
        /\ d.kind = "series" => Len(d.x) = Len(d.y)
        /\ call' = [op |-> "exportProfile", data |-> d, precision |-> precision,
                    out |-> exportProfile(d, precision)]
        /\ UNCHANGED <<serviceUrl, measurement, isloading, data, inflight, nQueries>>

NextExport == ExportProfile /\ UNCHANGED <<gsVars, etVars, kbVars>>

(***************************************************************************)
(*             HeightProfile: the chart's onHover and updateMarker         *)
(*                                                                         *)
(* The distance x along the line and the factor lambda are fractions,      *)
(* kept as numerator and denominator (the denominators are positive).      *)
(***************************************************************************)

\* Math.max(a) with its one argument: the argument
MathMax1(a) == a

\* onHover: the distance handed to updateMarker for a pointer at evtX
onHover(evtX, left, width, totLength) ==
    LET chartX == Min(MathMax1(evtX - left), width)
    IN  [num |-> chartX * totLength, den |-> width]

\* the vertices of a line with the given segment lengths that runs along one
\* axis: the coordinate of each vertex on that axis
coordinates(segmentLengths) ==
    [k \in 1..(Len(segmentLengths) + 1) |-> SumSeq(SubSeq(segmentLengths, 1, k - 1))]

\* the while loop of updateMarker from segment i (0-based) on
RECURSIVE markerLoop(_, _, _, _)
markerLoop(segmentLengths, x, i, runl) ==
    IF /\ i < Len(segmentLengths) - 1
       /\ x.num > (runl + segmentLengths[i + 1]) * x.den
    THEN markerLoop(segmentLengths, x, i + 1, runl + segmentLengths[i + 1])
    ELSE [i |-> i, runl |-> runl]

\* updateMarker(x): the segment index, lambda and the marker's coordinate
updateMarker(x, segmentLengths, coo) ==
    IF segmentLengths = <<>> \/ coo = <<>> THEN [marker |-> FALSE]
    ELSE LET l == markerLoop(segmentLengths, x, 0, 0)
             i == l.i
             lambdaNum == x.num - l.runl * x.den
             lambdaDen == segmentLengths[i + 1] * x.den
         IN  [marker |-> TRUE, i |-> i, lambdaNum |-> lambdaNum, lambdaDen |-> lambdaDen,
              \* coo[i] + lambda * (coo[i + 1] - coo[i]), times lambdaDen
              pNum |-> coo[i + 1] * lambdaDen + lambdaNum * (coo[i + 2] - coo[i + 1])]

\* chart.chartArea and the pointer positions of the hover events, in pixels
ChartLefts == {40}
ChartWidths == {200}
PointerXs == {0, 20, 40, 140, 240, 300}

\* a hover event on the chart of a measured line
Hover ==
    \E segmentLengths \in Lines, left \in ChartLefts, width \in ChartWidths,
       evtX \in PointerXs :
        LET x == onHover(evtX, left, width, SumSeq(segmentLengths))
        IN  /\ call' = [op |-> "hover", segmentLengths |-> segmentLengths,
                        left |-> left, width |-> width, evtX |-> evtX, x |-> x,
                        out |-> updateMarker(x, segmentLengths,
                                             coordinates(segmentLengths))]
            /\ UNCHANGED <<serviceUrl, measurement, isloading, data, inflight, nQueries>>

NextHover == Hover /\ UNCHANGED <<gsVars, etVars, kbVars>>

(***************************************************************************)
(*                             Specifications                              *)
(***************************************************************************)

\* The 3D tool sits idle beside the HeightProfile component
InitHPAlone == InitHP /\ InitScene /\ InitET /\ selectedObject = Null

SpecHP == InitHPAlone /\ [][NextHP]_vars

\* SpecHP with every request settling at some time: a promise of axios.post
\* that is pending resolves or rejects, and its handler runs
LiveSpecHP ==
    /\ InitHPAlone
    /\ [][NextHP]_vars
    /\ WF_vars(Response /\ UNCHANGED <<gsVars, etVars, kbVars>>)

\* The HeightProfile component sits idle beside the 3D tool
InitIdleHP == InitHP /\ serviceUrl = TRUE

InitGS == InitIdleHP /\ InitScene /\ InitET /\ selectedObject = Null

InitAll == InitIdleHP /\ InitScene /\ InitET

SpecET == InitAll /\ [][NextET]_vars

SpecPtr == InitAll /\ [][NextPtr]_vars

SpecExt == InitAll /\ [][NextExt]_vars

SpecLife == InitAll /\ [][NextLife]_vars

SpecReshape == InitHPAlone /\ [][NextReshape]_vars

SpecPick == InitHPAlone /\ [][NextPick]_vars

SpecExport == InitHPAlone /\ [][NextExport]_vars

SpecHover == InitHPAlone /\ [][NextHover]_vars

SpecGS == InitGS /\ [][NextGS]_vars

(***************************************************************************)
(*                       Claims about HeightProfile                        *)
(***************************************************************************)

(***************************************************************************)
(* C1: the response of a request that is no longer the newest one (a newer *)
(* query was started before it arrived), whether it succeeds or fails,     *)
(* changes neither the loading flag nor the data.                          *)
(***************************************************************************)
C1_StaleResponseChangesNothing ==
    [][\A q \in inflight :
          (inflight' = inflight \ {q} /\ q < nQueries)
              => (isloading' = isloading /\ data' = data)]_vars

(***************************************************************************)
(* C2: a response that arrives while the component is not loading (for     *)
(* instance after onClose) is discarded: data, loading flag and the        *)
(* registered pickPositionCallback are unchanged and the widget stays      *)
(* closed.                                                                 *)
(***************************************************************************)
C2_ResponseWhenNotLoadingDiscarded ==
    [][\A q \in inflight :
          (inflight' = inflight \ {q} /\ isloading = FALSE)
              => /\ data' = data
                 /\ isloading' = isloading
                 /\ measurement'.pickPositionCallback = measurement.pickPositionCallback
                 /\ WidgetShown' = WidgetShown]_vars

(***************************************************************************)
(*                     Claims about class GroupSelection                   *)
(***************************************************************************)

\* The origin of the frame a group's position is expressed in (its parent's
\* world position; the world origin for a group without parent)
ParentFrame(g, grp) == World(g, grp) - g.position[grp]

\* A member's position expressed in the group's parent frame
PosInParentFrame(g, grp, o) == World(g, o) - ParentFrame(g, grp)

PivotIsMean(g, grp) ==
    LET kids == g.children[grp]
        inFrame == [o \in Nodes |-> PosInParentFrame(g, grp, o)]
    IN  IF Len(kids) = 0
        THEN g.position[grp] = 0
        ELSE Len(kids) * g.position[grp] = SumOver(inFrame, kids)

(***************************************************************************)
(* C3: after each addToSelection and each removeFromSelection call the     *)
(* group's position is the arithmetic mean of its members' positions in    *)
(* the group's parent frame, and (0,0,0) when no member is left.           *)
(***************************************************************************)
C3_PivotIsMeanAfterAddRemove ==
    lastOp.op \in {"addToSelection", "removeFromSelection"}
        => PivotIsMean(scene, TheGroup)

\* a third member was added to a group the gadget had moved
C3_Witness ==
    /\ lastOp.op = "addToSelection"
    /\ Len(scene.children[TheGroup]) = 3
    /\ nDrags > 0
    /\ scene.position[TheGroup] # 0

(***************************************************************************)
(* C4: dissolve on a group with N members attached to parent P ends with   *)
(* every member a direct child of P, with the colour it had when it was    *)
(* added (or the colour last written to its saved original colour) and no  *)
(* saved colour left, the group without children and no longer under P.    *)
(***************************************************************************)
C4_DissolveRestores ==
    [][(lastOp'.op = "dissolve" /\ scene.parent[TheGroup] # Null)
        => LET P == scene.parent[TheGroup]
               members == Elems(scene.children[TheGroup])
           IN  /\ \A m \in members :
                    /\ scene'.parent[m] = P
                    /\ m \in Elems(scene'.children[P])
                    /\ scene'.color[m] = pickedColor[m]
                    /\ scene'.saved[m] = NoColor
               /\ scene'.children[TheGroup] = <<>>
               /\ scene'.parent[TheGroup] = Null
               /\ TheGroup \notin Elems(scene'.children[P])]_vars

\* a group of three was dissolved after a colour edit changed A's saved colour
C4_Witness ==
    /\ lastOp.op = "dissolve"
    /\ lastOp.n = 3
    /\ lastOp.par # Null
    /\ scene.color["A"] = 8

(***************************************************************************)
(* C5 as stated: dissolve on a group that is already empty, or already     *)
(* dissolved, changes nothing in the scene graph nor any colour.           *)
(***************************************************************************)
C5_DissolveOfEmptyChangesNothing ==
    [][(lastOp'.op = "dissolve" /\ Len(scene.children[TheGroup]) = 0)
        => scene' = scene]_vars

(***************************************************************************)
(* C5 amended: dissolve on a group without members raises no error and     *)
(* changes no position, colour or saved colour; it changes nothing at all  *)
(* when the group has no parent, and otherwise only takes the group node   *)
(* out of its parent's children.  After any dissolve a second dissolve     *)
(* raises no error and leaves the state as it is.                          *)
(***************************************************************************)
C5_DissolveIdempotent ==
    [][lastOp'.op = "dissolve"
        => /\ ~dissolveThrows(scene', TheGroup)
           /\ dissolve(scene', TheGroup) = scene'
           /\ Len(scene.children[TheGroup]) = 0
                => /\ scene'.position = scene.position
                   /\ scene'.color = scene.color
                   /\ scene'.saved = scene.saved
                   /\ scene'.children[TheGroup] = <<>>
                   /\ scene'.parent[TheGroup] = Null
                   /\ \A n \in Nodes \ {TheGroup} :
                        /\ scene'.parent[n] = scene.parent[n]
                        /\ scene'.children[n] = Without(scene.children[n], TheGroup)
                   /\ scene.parent[TheGroup] = Null => scene' = scene]_vars

\* dissolve was called on a group a former dissolve had emptied and detached
C5_Witness ==
    /\ lastOp.op = "dissolve"
    /\ lastOp.n = 0
    /\ lastOp.par = Null
    /\ \E m \in BaseMeshes : scene.parent[m] # InitParent[m]

(***************************************************************************)
(* C6: applyCsgOperation immediately followed by undoCsgOperation: the     *)
(* composite is no longer in the scene graph, a SelectionGroup under the   *)
(* parent the group had before the operation is the current target and     *)
(* holds the two operands in their former order, each operand has the      *)
(* absolute position, the displayed colour and the saved original colour   *)
(* it had just before the operation, and the pending record is cleared.    *)
(***************************************************************************)
C6_ApplyUndoRestores ==
    [][(lastOp.op = "applyCsgOperation" /\ lastOp'.op = "undoCsgOperation")
        => LET s == csgSnap[1]
               grp == selectedObject'
           IN  /\ scene'.parent[s.res] = Null
               /\ \A n \in Nodes : s.res \notin Elems(scene'.children[n])
               /\ grp \in Groups
               /\ attached' = grp
               /\ scene'.parent[grp] = s.par
               /\ scene'.children[grp] = <<s.a, s.b>>
               /\ scene'.parent[s.a] = grp
               /\ scene'.parent[s.b] = grp
               /\ World(scene', s.a) = s.worldA
               /\ World(scene', s.b) = s.worldB
               /\ scene'.color[s.a] = s.colorA
               /\ scene'.color[s.b] = s.colorB
               /\ scene'.saved[s.a] = s.savedA
               /\ scene'.saved[s.b] = s.savedB
               /\ csgBackup' = <<>>]_vars

(***************************************************************************)
(* C8: a click that changes the membership of the selection (a group       *)
(* created by ctrl-click, an object added to or removed from the group,    *)
(* the group dissolved) leaves the absolute position of every mesh of the  *)
(* scene as it was, also after the group was moved by the gadget and when  *)
(* the added object's former parent is not the group's parent.             *)
(***************************************************************************)
C8_PositionContinuity ==
    [][lastOp'.op = "selectShape"
        => \A m \in Meshes :
             (Rendered(scene, m) /\ Rendered(scene', m))
                 => World(scene', m) = World(scene, m)]_vars

(***************************************************************************)
(* C9: the members of a SelectionGroup are in selection order: a ctrl-     *)
(* click on B while the single object A is the target creates a group      *)
(* whose members are A first and B second, a later ctrl-click on a further *)
(* object adds it at the end, and the operation applied to a group of two  *)
(* takes its members in that order (subtract: first minus second).         *)
(***************************************************************************)
C9_MembersInSelectionOrder ==
    [][/\ (/\ lastOp'.op = "selectShape"
           /\ selectedObject \in Meshes
           /\ selectedObject' \in Groups
           /\ selectCount' = 2)
            => scene'.children[selectedObject'][1] = selectedObject
       /\ (/\ lastOp'.op = "selectShape"
           /\ selectedObject \in Groups
           /\ selectedObject' = selectedObject
           /\ selectCount' = selectCount + 1)
            => \E m \in Meshes :
                 scene'.children[selectedObject] = Append(scene.children[selectedObject], m)
       /\ lastOp'.op = "applyCsgOperation"
            => /\ Tail(lastOp'.obj) = scene.children[selectedObject]
               /\ csgBackup' = scene.children[selectedObject]]_vars

(***************************************************************************)
(* C7: state.csgBackup is set only while the selected object is the        *)
(* composite of the operation whose operands it holds and no drag of the   *)
(* gadget has completed since that operation.  It is set by a successful   *)
(* operation; a mouseUp of the gadget, a change of the selected object and *)
(* the unmount clear it, and these leave the composite in the scene and    *)
(* the operands out of it.                                                 *)
(***************************************************************************)
C7_PendingRecord ==
    [][/\ csgBackup' # <<>>
            => /\ csgSnap' # <<>>
               /\ selectedObject' = csgSnap'[1].res
               /\ csgBackup' = <<csgSnap'[1].a, csgSnap'[1].b>>
       /\ lastOp'.op = "applyCsgOperation"
            => /\ csgBackup' = scene.children[selectedObject]
               /\ selectedObject' \in Results
       /\ (/\ csgBackup # <<>>
           /\ lastOp'.op # "undoCsgOperation"
           /\ \/ lastOp'.op \in {"mouseUp", "componentWillUnmount"}
              \/ selectedObject' # selectedObject)
            => /\ csgBackup' = <<>>
               /\ Rendered(scene', selectedObject)
               /\ \A o \in Elems(csgBackup) : ~Rendered(scene', o)]_vars

\* the record of an operation is still there after a click on the composite
C7_Witness ==
    /\ csgBackup # <<>>
    /\ selectedObject \in Results
    /\ lastOp.op = "selectShape"

(***************************************************************************)
(* C10: selectShape runs on a pointerup only if a left-button pointerdown  *)
(* made while the gadget was not dragging came before it with no           *)
(* pointermove in between; a pointerup that follows a pointermove runs no  *)
(* selectShape and leaves the selected object as it is; a pointerup that   *)
(* follows such a pointerdown directly runs selectShape exactly once.      *)
(***************************************************************************)
C10_ClickNotDrag ==
    [][lastOp'.op = "pointerup"
        => /\ lastOp'.n > 0 => cleanDown
           /\ lastOp.op = "pointermove"
                => (lastOp'.n = 0 /\ selectedObject' = selectedObject)
           /\ (lastOp.op = "pointerdown" /\ lastOp.n = 1) => lastOp'.n = 1]_vars

\* a click ran selectShape after an earlier click and a drag of the gadget
C10_Witness ==
    /\ lastOp.op = "pointerup"
    /\ lastOp.n = 1
    /\ pointermove >= 2
    /\ nDrags = 1

\* the nodes above n
RECURSIVE Ancestors(_, _)
Ancestors(g, n) ==
    IF g.parent[n] = Null THEN {} ELSE {g.parent[n]} \cup Ancestors(g, g.parent[n])

Eligible(g, object) == object # Null /\ DrawGroup \in Ancestors(g, object)

(***************************************************************************)
(* C11: what selectShape does with a click, for every modifier state and   *)
(* every hit.  (a) modifier, a target and an eligible hit: a group target  *)
(* stays the target and the hit changes sides (member / non-member), the   *)
(* other members staying; a single target is replaced by a new group that  *)
(* holds exactly the former target and the hit.  (b) no modifier: a group  *)
(* target is dissolved and the target becomes the eligible hit, or null.   *)
(* (c) modifier and no eligible hit: nothing changes.  Eligible means a    *)
(* strict descendant of the draw group.                                    *)
(***************************************************************************)
C11_SelectShapeTransition ==
    mounted =>
      \A ctrlKey \in BOOLEAN, object \in Intersections(scene) :
        LET st == selectShape(St, ctrlKey, object)
            eligible == Eligible(scene, object)
            sel == selectedObject
        IN  /\ (ctrlKey /\ sel \in Groups /\ eligible)
                 => /\ st.sel = sel
                    /\ hasObject(st.g, sel, object) = ~hasObject(scene, sel, object)
                    /\ Elems(st.g.children[sel]) \ {object}
                         = Elems(scene.children[sel]) \ {object}
            /\ (ctrlKey /\ sel # Null /\ sel \notin Groups /\ eligible)
                 => /\ st.sel \in Groups
                    /\ st.sel # sel
                    /\ Elems(st.g.children[st.sel]) = {sel, object}
                    /\ Rendered(st.g, st.sel)
            /\ ~ctrlKey
                 => /\ st.sel = IF eligible THEN object ELSE Null
                    /\ sel \in Groups
                         => /\ st.g.children[sel] = <<>>
                            /\ st.g.parent[sel] = Null
            /\ (ctrlKey /\ ~eligible) => st = St
            /\ object \in {DrawGroup, Terrain} => ~eligible

\* a ctrl-click put a third object into the group, which stays the target
C11_Witness ==
    /\ lastOp.op = "selectShape"
    /\ selectedObject \in Groups
    /\ selectCount = 3
    /\ Len(scene.children[selectedObject]) = 3

(***************************************************************************)
(* C12: the gadget is attached to nothing or to the selected object; and   *)
(* when the selected object changes from a SelectionGroup to another       *)
(* value, the gadget is no longer attached to the group and the group is   *)
(* dissolved: no members, not in the scene, every former member in its     *)
(* original colour and back under the group's former parent (or, after a   *)
(* boolean operation, held as an operand of the pending record).           *)
(***************************************************************************)
C12_GroupDissolvedOnChange ==
    [][/\ attached' \in {Null, selectedObject'}
       /\ (selectedObject \in Groups /\ selectedObject' # selectedObject)
            => LET grp == selectedObject
                   P == scene.parent[grp]
               IN  /\ attached' # grp
                   /\ scene'.children[grp] = <<>>
                   /\ scene'.parent[grp] = Null
                   /\ \A n \in Nodes : grp \notin Elems(scene'.children[n])
                   /\ \A m \in Elems(scene.children[grp]) :
                        /\ scene'.color[m] = scene.saved[m]
                        /\ scene'.saved[m] = NoColor
                        /\ \/ scene'.parent[m] = P
                           \/ (lastOp'.op = "applyCsgOperation"
                                 /\ m \in Elems(csgBackup'))]_vars

(***************************************************************************)
(* C13: componentWillUnmount dissolves a live selection group, detaches    *)
(* the gadget and leaves none of the listeners the tool put on the canvas  *)
(* (pointerdown, keydown, keyup, the pointerup and pointermove listeners   *)
(* of selectShapeOnRelease); no event delivered after the unmount runs     *)
(* selectShape, onKeyDown or onKeyUp.                                      *)
(***************************************************************************)
C13_UnmountReleasesListeners ==
    [][/\ lastOp'.op = "componentWillUnmount"
            => /\ attached' = Null
               /\ selectedObject \in Groups
                    => /\ scene'.children[selectedObject] = <<>>
                       /\ scene'.parent[selectedObject] = Null
               /\ listeners' = {}
               /\ pointerup' = <<>>
               /\ pointermove' = 0
       /\ ~mounted
            => /\ lastOp'.op \notin {"onKeyDown", "onKeyUp"}
               /\ lastOp'.op = "pointerup" => lastOp'.n = 0]_vars

(***************************************************************************)
(* C14: a change of props.color to C sets the material colour of a single  *)
(* target to C; for a group target every member keeps the colour it shows  *)
(* (the highlight) and gets C as saved original colour; without a target   *)
(* nothing changes.  Whenever a member leaves a group (removeFromSelection *)
(* or dissolve) its material colour becomes its saved original colour, so  *)
(* the colour of the edit and not the one from before it.                  *)
(***************************************************************************)
C14_ColorEdit ==
    [][/\ lastOp'.op = "colorChanged"
            => LET sel == selectedObject
                   members == IF sel \in Groups THEN Elems(scene.children[sel]) ELSE {}
               IN  /\ sel = Null => scene' = scene
                   /\ sel \in Meshes
                        => /\ scene'.color[sel] \in PickedColors
                           /\ \A n \in Nodes \ {sel} : scene'.color[n] = scene.color[n]
                           /\ scene'.saved = scene.saved
                   /\ sel \in Groups
                        => /\ scene'.color = scene.color
                           /\ \A m \in members :
                                /\ scene'.color[m] = Highlight
                                /\ scene'.saved[m] \in PickedColors
                           /\ \A n \in Nodes \ members : scene'.saved[n] = scene.saved[n]
                   /\ scene'.parent = scene.parent
                   /\ scene'.position = scene.position
       /\ \A m \in Meshes :
            (scene.parent[m] \in Groups /\ scene'.parent[m] \notin Groups)
                => /\ scene'.color[m] = scene.saved[m]
                   /\ scene'.saved[m] = NoColor]_vars

\* the colour was edited while a group of two held A, whose own colour is 0
C14_Witness ==
    /\ lastOp.op = "colorChanged"
    /\ selectedObject \in Groups
    /\ selectCount = 2
    /\ scene.parent["A"] = selectedObject
    /\ scene.saved["A"] = 8
    /\ scene.color["A"] = Highlight

\* a sequence without two equal entries
NoDuplicates(seq) == \A i, j \in 1..Len(seq) : seq[i] = seq[j] => i = j

(***************************************************************************)
(* C15: for a line with V vertices and N >= 2 samples the node list of the *)
(* reshape step has exactly V entries, one per measured vertex with the    *)
(* first and the last, and no entry twice; segment lengths 400 and 600     *)
(* with 5 samples give the nodes at 0, 500 and 1000.                       *)
(***************************************************************************)
C15_OneNodePerVertex ==
    call.op = "reshape"
        => /\ Len(call.out.nodes) = Len(call.distances) + 1
           /\ NoDuplicates(call.out.nodes)
           /\ (call.distances = <<400, 600>> /\ call.samples = 5)
                => call.out.nodes = <<0, 500, 1000>>

\* q lies between p1 and p2 on a segment parallel to an axis
Between(q, p1, p2) ==
    \/ /\ q[2] = p1[2] /\ q[2] = p2[2]
       /\ Min(p1[1], p2[1]) <= q[1] /\ q[1] <= p1[1] + p2[1] - Min(p1[1], p2[1])
    \/ /\ q[1] = p1[1] /\ q[1] = p2[1]
       /\ Min(p1[2], p2[2]) <= q[2] /\ q[2] <= p1[2] + p2[2] - Min(p1[2], p2[2])

\* the segments of coo on which q lies
SegmentsWith(q, coo) == {i \in 1..(Len(coo) - 1) : Between(q, coo[i], coo[i + 1])}

\* the length along coo up to q on the first segment on which q lies
LengthAlong(q, coo) ==
    LET first == CHOOSE i \in SegmentsWith(q, coo) : \A j \in SegmentsWith(q, coo) : i <= j
    IN  SumSeq(SubSeq(segment_lengths(coo), 1, first - 1)) + Distance(coo[first], q)

(***************************************************************************)
(* C16: pickPositionCallback asks for the tooltip of sample                *)
(* min(len-1, floor(min(1, d/totalLength) * N)), d being the length of the *)
(* segments before the first segment on which the position lies plus the   *)
(* distance from that segment's start to the position; the index is in     *)
(* [0, len-1]; the midpoint of one segment of length 200 with N = 5 gives  *)
(* index 2; a position on no segment gives the last index.                 *)
(***************************************************************************)
C16_SampleIndex ==
    call.op = "pickPosition"
        => LET coo == call.coo
               N == call.samples
               total == SumSeq(segment_lengths(coo))
           IN  /\ call.out \in 0..(N - 1)
               /\ SegmentsWith(call.pos, coo) # {}
                    => LET d == LengthAlong(call.pos, coo)
                       IN  /\ d <= total
                           /\ call.out = Min(N - 1, (d * N) \div total)
               /\ SegmentsWith(call.pos, coo) = {} => call.out = N - 1
               /\ (coo = <<(<<0, 0>>), (<<200, 0>>)>> /\ call.pos = <<100, 0>> /\ N = 5)
                    => call.out = 2

\* a position on the second segment of a line of three vertices, the sample
\* index being neither the first nor the last
C16_Witness ==
    /\ call.op = "pickPosition"
    /\ Len(call.coo) = 3
    /\ SegmentsWith(call.pos, call.coo) = {2}
    /\ call.out > 0
    /\ call.out < call.samples - 1

\* r is v rounded to p decimal digits: a multiple of 10^-p, not farther from
\* v than half of 10^-p (both in thousandths)
IsRounded(r, v, p) ==
    LET step == Thousand \div Pow10(p)
    IN  /\ r % step = 0
        /\ 2 * Abs(r - v) <= step

C18_FailureEndsLoading ==
    [][/\ (/\ nQueries \in inflight
           /\ nQueries \notin inflight'
           /\ call'.op = "response"
           /\ call'.query = nQueries
           /\ call'.outcome \in {"reject", "malformed"}
           /\ isloading)
            => /\ isloading' = FALSE
               /\ data' = ErrorData(nQueries)
               /\ nQueries' = nQueries
               /\ inflight' = inflight \ {nQueries}
       /\ nQueries' # nQueries
            => /\ Qualifies(measurement')
               /\ inflight' = inflight \cup {nQueries'}
               /\ data' = data
               /\ call' = call]_vars

\* the second query's body had no elevations array; the error is shown
C18_Witness ==
    /\ call.op = "response"
    /\ call.outcome = "malformed"
    /\ call.query = 2
    /\ nQueries = 2
    /\ data = ErrorData(2)
    /\ ~isloading

\* the step replaces the measurement by one that differs in what
\* componentDidUpdate tests
MeasurementReplaced ==
    \/ measurement'.drawing # measurement.drawing
    \/ measurement'.geomType # measurement.geomType
    \/ measurement'.coordsEmpty # measurement.coordsEmpty

(***************************************************************************)
(* C19: state.data becomes empty and the pickPositionCallback is taken     *)
(* back both when the window is closed and when the measurement is         *)
(* replaced by one that does not qualify (no coordinates, not a line, or   *)
(* still drawing); and a series that becomes the data is the series of     *)
(* the newest qualifying measurement.                                      *)
(***************************************************************************)
C19_SeriesCleared ==
    [][/\ (call'.op = "onClose" /\ (call # call' \/ data' # data \/ isloading' # isloading))
            => /\ data' = EmptyData
               /\ ~measurement'.pickPositionCallback
       /\ (MeasurementReplaced /\ ~Qualifies(measurement'))
            => /\ data' = EmptyData
               /\ ~measurement'.pickPositionCallback
       /\ (data' # data /\ data'.kind = "series")
            => data'.query = nQueries]_vars

(***************************************************************************)
(* C20: while the tool is mounted, the CSG controls bar is rendered        *)
(* (state.selectCount is 2) only if props.selectedObject is a              *)
(* GroupSelection with exactly two children and a parent; the undo bar is  *)
(* rendered (state.csgBackup is set) only if csgBackup holds the two       *)
(* operands of the last operation and props.selectedObject is its result,  *)
(* which has a parent; and the two bars are never rendered together.  So   *)
(* applyCsgOperation and undoCsgOperation find what they dereference.      *)
(***************************************************************************)
C20_ControlsOffered ==
    mounted =>
        /\ selectCount = 2
             => /\ selectedObject \in Groups
                /\ Len(scene.children[selectedObject]) = 2
                /\ scene.parent[selectedObject] # Null
        /\ csgBackup # <<>>
             => /\ Len(csgBackup) = 2
                /\ csgSnap # <<>>
                /\ csgBackup = <<csgSnap[1].a, csgSnap[1].b>>
                /\ selectedObject = csgSnap[1].res
                /\ selectedObject \in Results
                /\ scene.parent[selectedObject] # Null
        /\ ~(selectCount = 2 /\ csgBackup # <<>>)

\* the undo bar after an operation applied from the CSG controls bar
C20_Witness ==
    /\ mounted
    /\ lastOp.op = "applyCsgOperation"
    /\ csgBackup # <<>>
    /\ selectCount = 1
    /\ selectedObject \in Results

(***************************************************************************)
(* C21: after a click handled by selectShape, props.selectedObject is not  *)
(* a GroupSelection without children: a control-click that removes the     *)
(* last member of the selected group leaves no empty group in the scene    *)
(* as the target of the gadget.                                            *)
(***************************************************************************)
C21_NoEmptyGroupSelected ==
    (mounted /\ lastOp.op = "selectShape" /\ selectedObject \in Groups)
        => /\ scene.children[selectedObject] # <<>>
           /\ selectCount > 0

(***************************************************************************)
(* C22: when a handler of EditTool3D has run, the scene graph has not been *)
(* changed since the last scene.notifyChange(): every handler that changes *)
(* the graph calls notifyChange afterwards, itself or through the          *)
(* componentDidUpdate that its props.objectPicked brings about.            *)
(***************************************************************************)
C22_NotifiedAfterMutation == ~scene.dirty

(***************************************************************************)
(* C23: after applyCsgOperation the colour of the result is the midpoint   *)
(* of the colours the two operands have once the group is dissolved, i.e.  *)
(* of their saved original colours (a colour edit made on the group        *)
(* included) and not of the highlight they showed; the operands and the    *)
(* group are out of the scene graph, and the result is a child of the      *)
(* parent the group had and is props.selectedObject, with the gadget on it.*)
(***************************************************************************)
C23_ResultColor ==
    [][lastOp'.op = "applyCsgOperation"
        => LET s == csgSnap'[1]
               grp == selectedObject
           IN  /\ s.colorA = Highlight /\ s.colorB = Highlight
               /\ scene'.color[s.res] = lerpColors(s.savedA, s.savedB)
               /\ \A o \in {s.a, s.b, grp} :
                    /\ scene'.parent[o] = Null
                    /\ \A n \in Nodes : o \notin Elems(scene'.children[n])
               /\ scene'.children[grp] = <<>>
               /\ s.par = scene.parent[grp]
               /\ scene'.parent[s.res] = s.par
               /\ s.res \in Elems(scene'.children[s.par])
               /\ selectedObject' = s.res
               /\ attached' = s.res]_vars

\* a result of two operands with different colours of their own
C23_Witness ==
    /\ lastOp.op = "applyCsgOperation"
    /\ csgSnap # <<>>
    /\ csgSnap[1].savedA # csgSnap[1].savedB
    /\ scene.color[selectedObject] = lerpColors(csgSnap[1].savedA, csgSnap[1].savedB)
    /\ scene.color[selectedObject] # Highlight

\* the cumulative length of the first k segments
RECURSIVE CumLength(_, _)
CumLength(distances, k) ==
    IF k = 0 THEN 0 ELSE CumLength(distances, k - 1) + distances[k]

\* the distance of the first sample of x that reaches or passes c
FirstReaching(x, c) ==
    x[CHOOSE i \in 1..Len(x) :
        /\ x[i] >= c
        /\ \A j \in 1..(i - 1) : x[j] < c]

(***************************************************************************)
(* C24: in the result of the reshape step, the node that follows the start *)
(* node for the k-th interior vertex of the line is the first sample whose *)
(* distance reaches or passes the cumulative length of the first k         *)
(* segments, also for segments shorter than the distance between two       *)
(* samples; and the node distances do not decrease along the list.         *)
(***************************************************************************)
C24_NodeAtFirstReachingSample ==
    call.op = "reshape"
        => LET nodes == call.out.nodes
               n == Len(call.distances)
           IN  /\ \A k \in 1..(n - 1) :
                    /\ k + 1 <= Len(nodes)
                    /\ nodes[k + 1] = FirstReaching(call.out.x, CumLength(call.distances, k))
               /\ \A i \in 1..(Len(nodes) - 1) : nodes[i] <= nodes[i + 1]

(***************************************************************************)
(* C25: for a hover event at any horizontal position, left of the chart    *)
(* area, inside it or right of it, the distance handed to updateMarker is  *)
(* between 0 and the length of the line, the segment index i is between 0  *)
(* and the number of segments minus one (so coordinates i and i + 1        *)
(* exist), lambda is between 0 and 1, and the marker lies between          *)
(* vertex i and vertex i + 1.                                              *)
(***************************************************************************)
C25_MarkerOnLine ==
    call.op = "hover"
        => LET n == Len(call.segmentLengths)
               coo == coordinates(call.segmentLengths)
               o == call.out
           IN  /\ 0 <= call.x.num
               /\ call.x.num <= SumSeq(call.segmentLengths) * call.x.den
               /\ o.marker
               /\ 0 <= o.i /\ o.i <= n - 1
               /\ o.i + 2 <= Len(coo)
               /\ 0 <= o.lambdaNum /\ o.lambdaNum <= o.lambdaDen
               /\ coo[o.i + 1] * o.lambdaDen <= o.pNum
               /\ o.pNum <= coo[o.i + 2] * o.lambdaDen

(***************************************************************************)
(* C26: when every request settles at some time, state.isloading does not  *)
(* stay true for ever: after the last measurement change that issues a     *)
(* request, isloading becomes false and stays false, whatever the order of *)
(* measurement changes, closes and responses before; isloading is true     *)
(* only while a request is pending; and without an elevation service URL   *)
(* no request is issued and isloading is never true.                       *)
(***************************************************************************)
C26_LoadingEnds ==
    /\ <>[](~isloading)
    /\ [](isloading => inflight # {})
    /\ [](~serviceUrl => (~isloading /\ inflight = {} /\ nQueries = 0))

\* the response of the last request of the run came last, when the loading
\* had been ended before (by an older response or a close), and was dropped
C26_Witness ==
    /\ nQueries = MaxQueries
    /\ inflight = {}
    /\ call.op = "response"
    /\ call.query = MaxQueries
    /\ data.query # MaxQueries
    /\ ~isloading

=============================================================================
